---- MODULE Spec2Model ----
(***************************************************************************)
(* FixtureCpuComponent (src/src/lucid_component_fixture_cpu/component.py): *)
(* a component that samples cpu_percent and load on a background loop       *)
(* thread, publishes retained state and cfg documents, and answers          *)
(* cmd/reset, cmd/ping and cmd/cfg/set with a correlated result.            *)
(*                                                                          *)
(* The hosting base class (lucid_component_base.Component) is not part of   *)
(* the sources; the few behaviours of it the component relies on (the       *)
(* start/stop guard, the stored configuration, the telemetry gate, the      *)
(* publisher) are modelled from the design document and are marked so.      *)
(***************************************************************************)
EXTENDS Integers, Sequences, FiniteSets, TLC

(***************************************************************************)
(* JSON values, as json.loads yields them.  A value is a record tagged by  *)
(* its type; a list is kept by its length only, an object as a function     *)
(* from its keys to values.                                                 *)
(***************************************************************************)
JNull == [t |-> "null"]

JBool(b) == [t |-> "bool", v |-> b]

JNum(n) == [t |-> "num", v |-> n]

JStr(s) == [t |-> "str", v |-> s]

JList(n) == [t |-> "list", v |-> n]

JObj(f) == [t |-> "obj", v |-> f]

EmptyMap == [k \in {} |-> JNull]

\* isinstance(x, dict)
IsDict(j) == j.t = "obj"

\* Python truthiness of a decoded JSON value: bool(x), `x or y`.
Truthy(j) ==
  CASE j.t = "null" -> FALSE
    [] j.t = "bool" -> j.v
    [] j.t = "num"  -> j.v # 0
    [] j.t = "str"  -> j.v # ""
    [] j.t = "list" -> j.v > 0
    [] j.t = "obj"  -> DOMAIN j.v # {}

\* "key" in d, for a dict d
Has(j, key) == key \in DOMAIN j.v

\* d.get(key, default), for a dict d
Get(j, key, default) == IF key \in DOMAIN j.v THEN j.v[key] ELSE default

\* {**a, **b} on the key -> value functions of two dicts: b's entries win.
Merge(a, b) == [k \in DOMAIN a \cup DOMAIN b |-> IF k \in DOMAIN b THEN b[k] ELSE a[k]]

(***************************************************************************)
(* Bounds of the model.                                                     *)
(***************************************************************************)
\* The number of start()/stop() calls of one run.
MaxCalls == 4

(***************************************************************************)
(* Program constants.                                                       *)
(***************************************************************************)
\* The value get_state_payload substitutes for a read that raised.
FallbackValue == 0

\* The default interval_s of a metric's telemetry configuration.
DefaultInterval == 2

\* The default change_threshold_percent (2.0) of a metric.
DefaultThreshold == 2

\* The keys of the state document: the metrics the component knows.
KnownMetrics == {"cpu_percent", "load"}

\* What psutil.cpu_percent and psutil.getloadavg may return (each may also raise).
CpuValues == {100, 103}

LoadValues == {1}

\* The outcome of one read of the metric source: a value, or an exception.
ReadOk(x) == [raised |-> FALSE, v |-> x]

ReadRaises == [raised |-> TRUE, v |-> 0]

CpuReads == {ReadOk(x) : x \in CpuValues} \cup {ReadRaises}

LoadReads == {ReadOk(x) : x \in LoadValues} \cup {ReadRaises}

\* Thread ids: a new loop thread is born by each effective start.
ThreadIds == 1..MaxCalls

VARIABLES
  lifecycle,        \* Component's running/stopped state kept by the base class
  calls,            \* the start()/stop() calls made so far, in order
  caller,           \* where the lifecycle caller is: "idle", or "joining" inside _stop
  _thread,          \* self._thread: 0 for None, else the id of the recorded thread
  _stop_event,      \* self._stop_event.is_set()
  threads,          \* each loop thread's position in _run_loop
  _logs_enabled,    \* self._logs_enabled
  _telemetry_cfg,   \* self._telemetry_cfg["metrics"]: metric name -> its config
  _last_emitted,    \* the gate's runtime state: metric name -> last emitted value
  last,             \* the command handler invocation being delivered, if any
  tick              \* the tick a loop thread has just made, if any

vars == <<lifecycle, calls, caller, _thread, _stop_event, threads, _logs_enabled,
          _telemetry_cfg, _last_emitted, last, tick>>

lifecycleVars == <<lifecycle, calls, caller, _thread, _stop_event>>

\* No command is being delivered; no tick has just been made.
NoInvocation == [op |-> "none"]

NoTick == [thread |-> 0]

\* A metric never emitted.
Unset == -1

\* One metric's configuration, as _publish_all_retained and on_cmd_cfg_set build it.
MetricConfig(enabled, interval_s, threshold) ==
  [enabled |-> enabled, interval_s |-> interval_s, change_threshold_percent |-> threshold]

\* The state document of one sample.
StateDoc(cpu, load) == [cpu_percent |-> cpu, load |-> load]

\* get_state_payload: each read that raises is replaced by 0.0; nothing is raised.
get_state_payload(cpuRead, loadRead) ==
  StateDoc(IF cpuRead.raised THEN FallbackValue ELSE cpuRead.v,
           IF loadRead.raised THEN FallbackValue ELSE loadRead.v)

\* publish_cfg: the retained cfg document, the flags and the nested telemetry.
CfgDoc(logs, metrics) == [logs_enabled |-> logs, telemetry |-> metrics]

\* The telemetry configuration _publish_all_retained seeds at start.
DefaultTelemetryCfg ==
  [m \in KnownMetrics |-> MetricConfig(JBool(TRUE), JNum(DefaultInterval), JNum(DefaultThreshold))]

Init ==
  /\ lifecycle = "stopped"
  /\ calls = <<>>
  /\ caller = "idle"
  /\ _thread = 0
  /\ _stop_event = FALSE
  /\ threads = [i \in ThreadIds |-> "unborn"]
  /\ _logs_enabled \in BOOLEAN
  /\ _telemetry_cfg = EmptyMap
  /\ _last_emitted = [m \in KnownMetrics |-> Unset]
  /\ last = NoInvocation
  /\ tick = NoTick

(***************************************************************************)
(* Lifecycle: Component.start / Component.stop around _start / _stop.       *)
(***************************************************************************)
\* The id the next loop thread gets.
NextThreadId == Cardinality({i \in ThreadIds : threads[i] # "unborn"}) + 1

\* A loop thread that has been started and has not returned from _run_loop.
Alive(i) == threads[i] \in {"check", "tick", "wait"}

\* Fault variant of _publish_all_retained: the stored telemetry configuration
\* is published as it is, not replaced by the defaults.
_publish_all_retained_keeping_cfg ==
  _telemetry_cfg' = _telemetry_cfg

\* _publish_all_retained: metadata, status, state and cfg go to the publisher,
\* and the default telemetry configuration replaces the stored one.
_publish_all_retained ==
  _telemetry_cfg' = DefaultTelemetryCfg

\* Fault variant of _start: the stop event is not cleared before the new loop
\* thread is started.
_start_without_clear ==
  /\ _publish_all_retained
  /\ UNCHANGED _stop_event
  /\ threads' = [threads EXCEPT ![NextThreadId] = "check"]
  /\ _thread' = NextThreadId

\* _start: publish the retained documents, clear the stop event, start a new
\* loop thread and record it.
_start ==
  /\ _publish_all_retained
  /\ _stop_event' = FALSE
  /\ threads' = [threads EXCEPT ![NextThreadId] = "check"]
  /\ _thread' = NextThreadId

\* Component.start: a start while running does nothing; otherwise _start runs
\* and the component is running.
Component_start ==
  /\ caller = "idle"
  /\ Len(calls) < MaxCalls
  /\ calls' = Append(calls, "start")
  /\ IF lifecycle = "running"
       THEN UNCHANGED <<lifecycle, _thread, _stop_event, threads, _telemetry_cfg>>
       ELSE /\ _start
            /\ lifecycle' = "running"
  /\ UNCHANGED <<caller, _logs_enabled, _last_emitted, last, tick>>

\* _stop up to the join: with a recorded thread the stop event is set and the
\* caller waits in t.join(timeout=2.0); with none there is nothing to do.
_stop_signal ==
  IF _thread # 0
    THEN /\ _stop_event' = TRUE
         /\ caller' = "joining"
         /\ UNCHANGED <<lifecycle, _thread>>
    ELSE /\ lifecycle' = "stopped"
         /\ UNCHANGED <<_stop_event, caller, _thread>>

\* Component.stop: a stop while stopped does nothing; otherwise _stop runs.
Component_stop ==
  /\ caller = "idle"
  /\ Len(calls) < MaxCalls
  /\ calls' = Append(calls, "stop")
  /\ IF lifecycle = "stopped"
       THEN UNCHANGED <<lifecycle, caller, _thread, _stop_event>>
       ELSE _stop_signal
  /\ UNCHANGED <<threads, _logs_enabled, _telemetry_cfg, _last_emitted, last, tick>>

\* Fault variant of _stop_join: t.join() without a timeout, which returns only
\* when the thread has exited.
_stop_join_without_timeout ==
  /\ caller = "joining"
  /\ threads[_thread] = "done"
  /\ _thread' = 0
  /\ lifecycle' = "stopped"
  /\ caller' = "idle"
  /\ UNCHANGED <<calls, _stop_event, threads, _logs_enabled, _telemetry_cfg,
                 _last_emitted, last, tick>>

\* _stop from the join on: join returns when the thread has exited, or after
\* the 2.0 s timeout with the thread still inside a tick; either way the
\* recorded thread is cleared and the component is stopped.
_stop_join ==
  /\ caller = "joining"
  /\ threads[_thread] \in {"done", "tick"}
  /\ _thread' = 0
  /\ lifecycle' = "stopped"
  /\ caller' = "idle"
  /\ UNCHANGED <<calls, _stop_event, threads, _logs_enabled, _telemetry_cfg,
                 _last_emitted, last, tick>>

(***************************************************************************)
(* The sampling loop thread, _run_loop, and one tick of it.                 *)
(***************************************************************************)
\* Seconds since a metric's last emission, as the gate may find them in a tick.
ElapsedValues == {1, 2}

\* Where an exception may be raised inside a tick: by the state publication, by
\* the gate, or by a telemetry publication.
TickFaults == {"none", "publish_state", "should_publish_telemetry", "publish_telemetry"}

Abs(x) == IF x < 0 THEN -x ELSE x

\* The relative change from the last emitted value exceeds thr percent; against
\* a last value of zero any non-zero value is a 100% change, zero a 0% change.
ChangeExceeds(old, new, thr) ==
  IF old = 0
    THEN (IF new = 0 THEN 0 ELSE 100) > thr
    ELSE Abs(new - old) * 100 > thr * Abs(old)

\* The telemetry gate of the base class: never for a metric without an enabled
\* configuration, always for its first sample, otherwise when the interval has
\* elapsed or the value changed by more than the threshold.
should_publish_telemetry(metric, value, elapsed) ==
  /\ metric \in DOMAIN _telemetry_cfg
  /\ Truthy(_telemetry_cfg[metric].enabled)
  /\ \/ _last_emitted[metric] = Unset
     \/ elapsed >= _telemetry_cfg[metric].interval_s.v
     \/ ChangeExceeds(_last_emitted[metric], value, _telemetry_cfg[metric].change_threshold_percent.v)

StatePub(doc) == [topic |-> "state", doc |-> doc]

TelemetryPub(metric, value) == [topic |-> "evt/telemetry", metric |-> metric, value |-> value]

\* Fault variant of TickOut: the gate is not asked, every metric is published.
TickOut_ungated(state, elapsed, fault) ==
  IF fault = "publish_state" THEN <<>>
  ELSE <<StatePub(state)>>
       \o (IF fault = "none" THEN <<TelemetryPub("cpu_percent", state.cpu_percent)>> ELSE <<>>)
       \o (IF fault = "none" THEN <<TelemetryPub("load", state.load)>> ELSE <<>>)

\* Fault variant of TickOut: the state document is published only in a tick
\* that has a telemetry event to publish, and after the events.
TickOut_state_with_telemetry(state, elapsed, fault) ==
  LET events ==
        (IF fault = "none" /\ should_publish_telemetry("cpu_percent", state.cpu_percent, elapsed)
           THEN <<TelemetryPub("cpu_percent", state.cpu_percent)>> ELSE <<>>)
        \o (IF fault = "none" /\ should_publish_telemetry("load", state.load, elapsed)
              THEN <<TelemetryPub("load", state.load)>> ELSE <<>>)
  IN IF events = <<>> THEN <<>> ELSE events \o <<StatePub(state)>>

\* What the try block of one tick publishes, in order: the state document, then
\* cpu_percent and load where the gate lets them through.  An exception ends
\* the block where it is raised.
TickOut(state, elapsed, fault) ==
  IF fault = "publish_state" THEN <<>>
  ELSE <<StatePub(state)>>
       \o (IF fault = "none" /\ should_publish_telemetry("cpu_percent", state.cpu_percent, elapsed)
             THEN <<TelemetryPub("cpu_percent", state.cpu_percent)>> ELSE <<>>)
       \o (IF fault = "none" /\ should_publish_telemetry("load", state.load, elapsed)
             THEN <<TelemetryPub("load", state.load)>> ELSE <<>>)

\* The metrics a tick's publications carry a telemetry event for.
Emitted(out) == {out[i].metric : i \in {j \in DOMAIN out : out[j].topic = "evt/telemetry"}}

\* while not self._stop_event.is_set(): the loop ends or enters a tick.
LoopCheck(i) ==
  /\ threads[i] = "check"
  /\ threads' = [threads EXCEPT ![i] = IF _stop_event THEN "done" ELSE "tick"]
  /\ UNCHANGED <<lifecycleVars, _logs_enabled, _telemetry_cfg, _last_emitted, last, tick>>

\* The record of one tick: the thread that made it, which reads raised, the
\* sample, where an exception was raised, the metrics enabled in the stored
\* configuration and those the gate lets through when the tick is made, and
\* what the tick published in order.
TickRecord(i, cpuRead, loadRead, state, elapsed, fault, out) ==
  [thread |-> i, cpu_raised |-> cpuRead.raised, load_raised |-> loadRead.raised,
   state |-> state, fault |-> fault,
   enabled |-> {m \in DOMAIN _telemetry_cfg : Truthy(_telemetry_cfg[m].enabled)},
   gate |-> {m \in KnownMetrics : should_publish_telemetry(m, state[m], elapsed)},
   out |-> out]

\* Fault variant of Tick: an exception raised inside the tick ends the loop.
Tick_fault_ends_loop(i, cpuRead, loadRead, elapsed, fault) ==
  LET state == get_state_payload(cpuRead, loadRead)
      out == TickOut(state, elapsed, fault)
  IN /\ threads[i] = "tick"
     /\ threads' = [threads EXCEPT ![i] = IF fault = "none" THEN "wait" ELSE "done"]
     /\ _last_emitted' = [m \in KnownMetrics |->
                            IF m \in Emitted(out) THEN state[m] ELSE _last_emitted[m]]
     /\ tick' = TickRecord(i, cpuRead, loadRead, state, elapsed, fault, out)
     /\ UNCHANGED <<lifecycleVars, _logs_enabled, _telemetry_cfg, last>>

\* The try block of _run_loop: sample, publish state, then each gated metric;
\* any exception is logged and the loop goes on to its wait.
Tick(i, cpuRead, loadRead, elapsed, fault) ==
  LET state == get_state_payload(cpuRead, loadRead)
      out == TickOut(state, elapsed, fault)
  IN /\ threads[i] = "tick"
     /\ threads' = [threads EXCEPT ![i] = "wait"]
     /\ _last_emitted' = [m \in KnownMetrics |->
                            IF m \in Emitted(out) THEN state[m] ELSE _last_emitted[m]]
     /\ tick' = TickRecord(i, cpuRead, loadRead, state, elapsed, fault, out)
     /\ UNCHANGED <<lifecycleVars, _logs_enabled, _telemetry_cfg, last>>

\* Fault variant of LoopWait: the loop sleeps for the period whatever the stop
\* event, and repeats.
LoopWait_sleep(i) ==
  /\ threads[i] = "wait"
  /\ threads' = [threads EXCEPT ![i] = "check"]
  /\ tick' = IF tick.thread = i THEN NoTick ELSE tick
  /\ UNCHANGED <<lifecycleVars, _logs_enabled, _telemetry_cfg, _last_emitted, last>>

\* if self._stop_event.wait(2.0): break -- the wait returns at once when the
\* event is set and ends the loop; otherwise it times out and the loop repeats.
LoopWait(i) ==
  /\ threads[i] = "wait"
  /\ threads' = [threads EXCEPT ![i] = IF _stop_event THEN "done" ELSE "check"]
  /\ tick' = IF tick.thread = i THEN NoTick ELSE tick
  /\ UNCHANGED <<lifecycleVars, _logs_enabled, _telemetry_cfg, _last_emitted, last>>

\* _run_loop, its samples, clock readings and publisher faults drawn from the
\* given sets.
_run_loop(cpuReads, loadReads, elapsedValues, faults) ==
  \E i \in ThreadIds :
    \/ LoopCheck(i)
    \/ \E cpuRead \in cpuReads, loadRead \in loadReads, elapsed \in elapsedValues, fault \in faults :
         Tick(i, cpuRead, loadRead, elapsed, fault)
    \/ LoopWait(i)

(***************************************************************************)
(* Command payloads.  A payload string is empty, not decodable as JSON, or  *)
(* the text of a JSON value.                                                *)
(***************************************************************************)
EmptyPayload == [k |-> "empty"]

Undecodable == [k |-> "undecodable"]

Json(j) == [k |-> "json", j |-> j]

\* json.loads raises JSONDecodeError
DecodeFails(p) == p.k = "undecodable"

\* json.loads(payload_str) if payload_str else {}
Decoded(p) == IF p.k = "empty" THEN JObj(EmptyMap) ELSE p.j

\* payload.get(...) on a decoded value that is no dict raises AttributeError,
\* which the handlers' `except json.JSONDecodeError` does not catch.
Raises(p) == ~DecodeFails(p) /\ ~IsDict(Decoded(p))

\* Fault variant of RequestId: the request id of the payload is not read.
RequestId_dropped(p) == JStr("")

\* request_id = payload.get("request_id", ""), or "" after a JSONDecodeError.
RequestId(p) ==
  IF DecodeFails(p) THEN JStr("") ELSE Get(Decoded(p), "request_id", JStr(""))

\* One CommandResult, as publish_result / publish_cfg_set_result send it.
ResultPub(action, request_id, ok, applied, error) ==
  [topic |-> "evt/result", action |-> action, request_id |-> request_id,
   ok |-> ok, applied |-> applied, error |-> error]

CfgPub(doc) == [topic |-> "cfg", doc |-> doc]

\* The record of one handler invocation: what it was given, whether an
\* exception escaped it, what it published, and the configuration before and
\* after it.
Invocation(op, p, raised, out, logs, cfg) ==
  [op |-> op, payload |-> p, raised |-> raised, out |-> out,
   pre_logs |-> _logs_enabled, pre_cfg |-> _telemetry_cfg,
   post_logs |-> logs, post_cfg |-> cfg]

\* on_cmd_reset / on_cmd_ping: parse the request id, publish a positive result.
Acknowledge(action, p) ==
  /\ last = NoInvocation
  /\ last' = Invocation(action, p, Raises(p),
                        IF Raises(p) THEN <<>>
                        ELSE <<ResultPub(action, RequestId(p), TRUE, JNull, JNull)>>,
                        _logs_enabled, _telemetry_cfg)
  /\ UNCHANGED <<lifecycleVars, threads, _logs_enabled, _telemetry_cfg, _last_emitted, tick>>

on_cmd_reset(p) == Acknowledge("reset", p)

on_cmd_ping(p) == Acknowledge("ping", p)

(***************************************************************************)
(* on_cmd_cfg_set.                                                          *)
(***************************************************************************)
\* Fault variant of SetDict: after a JSONDecodeError set_dict is left None.
SetDict_none_on_error(p) ==
  IF DecodeFails(p) THEN JNull
  ELSE LET v == Get(Decoded(p), "set", JNull)
       IN IF Truthy(v) THEN v ELSE JObj(EmptyMap)

\* set_dict = payload.get("set") or {}, or {} after a JSONDecodeError.
SetDict(p) ==
  IF DecodeFails(p) THEN JObj(EmptyMap)
  ELSE LET v == Get(Decoded(p), "set", JNull)
       IN IF Truthy(v) THEN v ELSE JObj(EmptyMap)

\* int(x) / float(x) raise for anything but a number or a boolean (the strings
\* of the model are not numerals).
NumberRaises(j) == j.t \notin {"num", "bool"}

NumberOf(j) == IF j.t = "bool" THEN (IF j.v THEN 1 ELSE 0) ELSE j.v

\* Merging metric_cfg into the configuration of a known metric raises: for a
\* metric that has one, {**current, **metric_cfg} with a metric_cfg that is no
\* mapping; for a new one, int() or float() of a field that is no number.
MetricRaises(current, name, metric_cfg) ==
  IF name \in DOMAIN current
    THEN ~IsDict(metric_cfg)
    ELSE /\ IsDict(metric_cfg)
         /\ \/ NumberRaises(Get(metric_cfg, "interval_s", JNum(DefaultInterval)))
            \/ NumberRaises(Get(metric_cfg, "change_threshold_percent", JNum(DefaultThreshold)))

\* The fields a merged configuration lacks, filled from their defaults.
Backfill(cfg) ==
  Merge(MetricConfig(JBool(FALSE), JNum(DefaultInterval), JNum(DefaultThreshold)), cfg)

\* Fault variant of MergeMetric: the configuration is always built anew from
\* metric_cfg and the defaults, whatever the metric had.
MergeMetric_from_defaults(current, name, metric_cfg) ==
  IF IsDict(metric_cfg)
    THEN MetricConfig(
           JBool(Truthy(Get(metric_cfg, "enabled", JBool(FALSE)))),
           JNum(NumberOf(Get(metric_cfg, "interval_s", JNum(DefaultInterval)))),
           JNum(NumberOf(Get(metric_cfg, "change_threshold_percent", JNum(DefaultThreshold)))))
    ELSE MetricConfig(JBool(Truthy(metric_cfg)), JNum(DefaultInterval), JNum(DefaultThreshold))

\* The configuration of a known metric after merging metric_cfg into it: a deep
\* merge over the existing configuration, or a new one built from metric_cfg.
MergeMetric(current, name, metric_cfg) ==
  IF name \in DOMAIN current
    THEN Backfill(Merge(current[name], metric_cfg.v))
    ELSE IF IsDict(metric_cfg)
      THEN MetricConfig(
             JBool(Truthy(Get(metric_cfg, "enabled", JBool(FALSE)))),
             JNum(NumberOf(Get(metric_cfg, "interval_s", JNum(DefaultInterval)))),
             JNum(NumberOf(Get(metric_cfg, "change_threshold_percent", JNum(DefaultThreshold)))))
      ELSE MetricConfig(JBool(Truthy(metric_cfg)), JNum(DefaultInterval), JNum(DefaultThreshold))

\* "metrics" in telemetry_set and isinstance(telemetry_set["metrics"], dict)
HasMetricsDict(telemetry_set) ==
  Has(telemetry_set, "metrics") /\ IsDict(telemetry_set.v["metrics"])

\* Fault variant of NamedKnown: a name that is not in state is not skipped.
NamedKnown_unfiltered(telemetry_set) ==
  IF HasMetricsDict(telemetry_set) THEN DOMAIN telemetry_set.v["metrics"].v ELSE {}

\* The metric names of the request that exist in state: the others are skipped.
NamedKnown(telemetry_set) ==
  IF HasMetricsDict(telemetry_set)
    THEN DOMAIN telemetry_set.v["metrics"].v \cap KnownMetrics
    ELSE {}

\* Processing the request's metrics raises.
MetricsRaise(current, telemetry_set) ==
  \E name \in NamedKnown(telemetry_set) :
    MetricRaises(current, name, telemetry_set.v["metrics"].v[name])

\* current_metrics after the merge loop and, inside the same `if`, the loop
\* that adds every state metric still missing with its defaults.
MergedMetrics(current, telemetry_set) ==
  IF HasMetricsDict(telemetry_set)
    THEN [name \in DOMAIN current \cup NamedKnown(telemetry_set) \cup KnownMetrics |->
            IF name \in NamedKnown(telemetry_set)
              THEN MergeMetric(current, name, telemetry_set.v["metrics"].v[name])
            ELSE IF name \in DOMAIN current THEN current[name]
            ELSE MetricConfig(JBool(FALSE), JNum(DefaultInterval), JNum(DefaultThreshold))]
    ELSE current

\* self._logs_enabled after the logs_enabled block.
LogsAfter(set_dict) ==
  IF Has(set_dict, "logs_enabled") THEN Truthy(set_dict.v["logs_enabled"]) ELSE _logs_enabled

\* The applied document of a successful cfg/set: the logging flag as stored and
\* the request's telemetry object as received; None when neither was given.
Applied(set_dict) ==
  LET keys == DOMAIN set_dict.v \cap {"logs_enabled", "telemetry"}
  IN IF keys = {} THEN JNull
     ELSE JObj([key \in keys |->
                  IF key = "logs_enabled" THEN JBool(LogsAfter(set_dict))
                  ELSE set_dict.v["telemetry"]])

CfgSetResult(p, ok, applied, error) == ResultPub("cfg/set", RequestId(p), ok, applied, error)

\* Fault variant of SuccessOut: the result is emitted before cfg is republished.
SuccessOut_result_first(p, set_dict, logs, cfg) ==
  <<CfgSetResult(p, TRUE, Applied(set_dict), JNull), CfgPub(CfgDoc(logs, cfg))>>

\* What a successful cfg/set publishes: publish_cfg() with the stored
\* configuration, then the result with ok=True.
SuccessOut(p, set_dict, logs, cfg) ==
  <<CfgPub(CfgDoc(logs, cfg)), CfgSetResult(p, TRUE, Applied(set_dict), JNull)>>

\* What one on_cmd_cfg_set does: whether an exception escapes, the logging flag
\* and the telemetry configuration it leaves, and what it publishes in order.
CfgSetOutcome(p) ==
  LET set_dict == SetDict(p)
      fail(logs, msg) ==
        [raised |-> FALSE, logs |-> logs, cfg |-> _telemetry_cfg,
         out |-> <<CfgSetResult(p, FALSE, JNull, JStr(msg))>>]
  IN IF Raises(p)
       THEN [raised |-> TRUE, logs |-> _logs_enabled, cfg |-> _telemetry_cfg, out |-> <<>>]
     ELSE IF ~IsDict(set_dict)
       THEN fail(_logs_enabled, "payload 'set' must be an object")
     ELSE IF ~Has(set_dict, "telemetry")
       THEN [raised |-> FALSE, logs |-> LogsAfter(set_dict), cfg |-> _telemetry_cfg,
             out |-> SuccessOut(p, set_dict, LogsAfter(set_dict), _telemetry_cfg)]
     ELSE IF ~IsDict(set_dict.v["telemetry"])
       THEN fail(LogsAfter(set_dict), "telemetry must be an object")
     ELSE IF MetricsRaise(_telemetry_cfg, set_dict.v["telemetry"])
       THEN fail(LogsAfter(set_dict), "exception")
     ELSE LET merged == MergedMetrics(_telemetry_cfg, set_dict.v["telemetry"])
          IN [raised |-> FALSE, logs |-> LogsAfter(set_dict), cfg |-> merged,
              out |-> SuccessOut(p, set_dict, LogsAfter(set_dict), merged)]

\* The cfg documents among a handler's publications.
CfgDocs(out) == {out[i].doc : i \in {j \in DOMAIN out : out[j].topic = "cfg"}}

on_cmd_cfg_set(p) ==
  LET o == CfgSetOutcome(p)
  IN /\ last = NoInvocation
     /\ _logs_enabled' = o.logs
     /\ _telemetry_cfg' = o.cfg
     /\ last' = Invocation("cfg/set", p, o.raised, o.out, o.logs, o.cfg)
     /\ UNCHANGED <<lifecycleVars, threads, _last_emitted, tick>>

\* The handler has returned (or raised) to the host, which delivers the next
\* command only then.
HandlerReturns ==
  /\ last # NoInvocation
  /\ last' = NoInvocation
  /\ UNCHANGED <<lifecycleVars, threads, _logs_enabled, _telemetry_cfg, _last_emitted, tick>>

\* The command dispatcher: one handler runs to completion on one payload.
Commands(ackPayloads, cfgPayloads) ==
  \/ \E p \in ackPayloads : on_cmd_reset(p)
  \/ \E p \in ackPayloads : on_cmd_ping(p)
  \/ \E p \in cfgPayloads : on_cmd_cfg_set(p)
  \/ HandlerReturns

(***************************************************************************)
(* Inputs.                                                                  *)
(***************************************************************************)
\* The payloads of cmd/reset and cmd/ping: empty, undecodable, JSON that is no
\* object, and objects with and without a request_id.
AckPayloads ==
  {EmptyPayload, Undecodable,
   Json(JNull), Json(JNum(7)), Json(JStr("text")), Json(JList(2)),
   Json(JObj(EmptyMap)), Json(JObj([request_id |-> JStr("r1")]))}

\* The values of `set` that are no object.
NonObjectSets ==
  {JStr("not-an-object"), JStr(""), JNum(3), JNum(0), JBool(TRUE), JBool(FALSE),
   JList(2), JList(0)}

\* What a request may give as one metric's configuration.
MetricInputs(name) ==
  CASE name = "cpu_percent" ->
         {JObj([enabled |-> JBool(FALSE)]), JObj([interval_s |-> JNum(5)]),
          JObj([interval_s |-> JNum(0)]),
          JObj([enabled |-> JStr("yes"), change_threshold_percent |-> JNum(-1)])}
    [] name = "load" -> {JObj([enabled |-> JBool(FALSE)]), JNum(7)}
    [] name = "bogus_metric" -> {JObj([enabled |-> JBool(TRUE)])}

RequestMetricNames == {"cpu_percent", "load", "bogus_metric"}

\* The `metrics` objects of a request: any subset of the names, each with one
\* of its inputs.
MetricsObjects ==
  UNION {{f \in [names -> UNION {MetricInputs(n) : n \in RequestMetricNames}] :
            \A n \in names : f[n] \in MetricInputs(n)} : names \in SUBSET RequestMetricNames}

\* The values of `telemetry`: no object, an object without `metrics`, with a
\* `metrics` that is no object, and with each of the metrics objects.
TelemetryValues ==
  {JStr("not-an-object"), JNum(0), JObj(EmptyMap),
   JObj([metrics |-> JStr("not-an-object")]), JObj([metrics |-> JList(0)])}
  \cup {JObj([metrics |-> JObj(f)]) : f \in MetricsObjects}

\* The `set` objects: logs_enabled absent, true or false, telemetry absent or given.
SetObjects ==
  LET logs == {EmptyMap, [logs_enabled |-> JBool(TRUE)], [logs_enabled |-> JBool(FALSE)]}
      tele == {EmptyMap} \cup {[telemetry |-> tv] : tv \in TelemetryValues}
  IN {JObj(Merge(l, tl)) : l \in logs, tl \in tele}

\* The payloads of cmd/cfg/set.
CfgPayloads ==
  AckPayloads
  \cup {Json(JObj([request_id |-> JStr("r1"), set |-> sv])) : sv \in NonObjectSets \cup SetObjects}

\* The inputs of the specification of the whole component: one good sample or a
\* failed read, the interval elapsed, the state publication failing or not, and
\* a few commands.
CoreCpuReads == {ReadOk(100), ReadRaises}

CoreLoadReads == {ReadOk(1)}

CoreElapsed == {2}

CoreFaults == {"none", "publish_state"}

CoreAckPayloads == {EmptyPayload, Json(JObj([request_id |-> JStr("r1")]))}

CoreCfgPayloads ==
  {Json(JObj([request_id |-> JStr("r1"),
              set |-> JObj([telemetry |->
                JObj([metrics |-> JObj([cpu_percent |-> JObj([enabled |-> JBool(FALSE)])])])])])),
   Json(JObj([request_id |-> JStr("r1"), set |-> JStr("not-an-object")]))}

(***************************************************************************)
(* Specifications.                                                          *)
(***************************************************************************)
\* The whole component: lifecycle, loop threads and commands interleaved.
Next ==
  \/ Component_start
  \/ Component_stop
  \/ _stop_join
  \/ _run_loop(CoreCpuReads, CoreLoadReads, CoreElapsed, CoreFaults)
  \/ Commands(CoreAckPayloads, CoreCfgPayloads)

Spec == Init /\ [][Next]_vars

\* The command handlers on every payload, before and after a start.  The
\* handlers read and write the logging flag and the telemetry configuration
\* only, which neither stop nor the loop writes.
NextCommands ==
  \/ Component_start
  \/ Commands(AckPayloads, CfgPayloads)

SpecCommands == Init /\ [][NextCommands]_vars

\* The sampling loop of one started component on every sample, clock reading
\* and publisher fault, with the configuration changed by commands meanwhile.
NextTicks ==
  \/ Component_start
  \/ _run_loop(CpuReads, LoadReads, ElapsedValues, TickFaults)
  \/ Commands(CoreAckPayloads, CoreCfgPayloads)

SpecTicks == Init /\ [][NextTicks]_vars

\* The lifecycle and the loop threads under the scheduler.
NextLoop ==
  \/ Component_start
  \/ Component_stop
  \/ _stop_join
  \/ _run_loop(CoreCpuReads, CoreLoadReads, CoreElapsed, CoreFaults)

\* What the scheduler guarantees: t.join(timeout=2.0) returns once the thread
\* has exited or the timeout has passed, and a loop thread at its `while` test
\* or in its wait of 2.0 s goes on.  Nothing makes a tick complete: the reads
\* and the publisher may block for ever.
Fairness ==
  /\ WF_vars(_stop_join)
  /\ \A i \in ThreadIds : WF_vars(LoopCheck(i)) /\ WF_vars(LoopWait(i))

SpecLoop == Init /\ [][NextLoop]_vars /\ Fairness

(***************************************************************************)
(* Properties.                                                              *)
(***************************************************************************)
\* The CommandResults among a handler's publications.
Results(out) == {i \in DOMAIN out : out[i].topic = "evt/result"}

\* The handler invocation being delivered is of one of these commands.
Handled(ops) == last # NoInvocation /\ last.op \in ops

\* The payload is the text of a JSON object.
IsObjectPayload(p) == p.k = "json" /\ IsDict(p.j)

\* C1: start and stop are idempotent.  Whenever no lifecycle call is in
\* progress, the component is running exactly when the last call made was a
\* start and stopped when it was a stop (or none was made); when running, a
\* thread is recorded, it is alive in the sampling loop and the stop event is
\* clear; when stopped, no thread is recorded.
C1_StartStopIdempotent ==
  caller = "idle" =>
    /\ lifecycle = "running" <=> (calls # <<>> /\ calls[Len(calls)] = "start")
    /\ lifecycle = "stopped" <=> (calls = <<>> \/ calls[Len(calls)] = "stop")
    /\ lifecycle = "running" => _thread \in ThreadIds /\ Alive(_thread) /\ ~_stop_event
    /\ lifecycle = "stopped" => _thread = 0

\* start, start, stop, stop have been called and have returned.
C1_Witness ==
  /\ calls = <<"start", "start", "stop", "stop">>
  /\ caller = "idle"
  /\ lifecycle = "stopped"
  /\ _thread = 0

\* C2: every invocation of a command handler returns without raising and
\* publishes exactly one CommandResult, whatever the payload.
C2_OneResultNoRaise ==
  Handled({"reset", "ping", "cfg/set"}) =>
    /\ ~last.raised
    /\ Cardinality(Results(last.out)) = 1

\* C3: the result of cmd/reset and cmd/ping has ok=true and error=null and
\* carries the request_id of the payload, or "" when the payload is empty,
\* undecodable or an object without request_id; cmd/ping with no payload
\* publishes exactly the result with request_id "", ok=true, error=null.
C3_AckResult ==
  Handled({"reset", "ping"}) =>
    /\ \A i \in Results(last.out) :
         /\ last.out[i].action = last.op
         /\ last.out[i].ok = TRUE
         /\ last.out[i].error = JNull
         /\ last.out[i].request_id =
              IF IsObjectPayload(last.payload) /\ "request_id" \in DOMAIN last.payload.j.v
                THEN last.payload.j.v["request_id"]
                ELSE JStr("")
    /\ (IsObjectPayload(last.payload) \/ last.payload \in {EmptyPayload, Undecodable})
         => Cardinality(Results(last.out)) = 1

\* cmd/reset with request_id "r1" has been answered with that request_id.
C3_Witness ==
  /\ Handled({"reset"})
  /\ last.payload = Json(JObj([request_id |-> JStr("r1")]))
  /\ last.out = <<ResultPub("reset", JStr("r1"), TRUE, JNull, JNull)>>

\* The metrics object of a cmd/cfg/set payload, as a function from the metric
\* names it gives to their configurations; empty when the payload has none.
RequestMetrics(p) ==
  IF /\ IsObjectPayload(p)
     /\ Has(p.j, "set") /\ IsDict(p.j.v["set"])
     /\ Has(p.j.v["set"], "telemetry") /\ IsDict(p.j.v["set"].v["telemetry"])
     /\ HasMetricsDict(p.j.v["set"].v["telemetry"])
    THEN p.j.v["set"].v["telemetry"].v["metrics"].v
    ELSE EmptyMap

\* The payload's `set`, its `telemetry` or its `telemetry.metrics` is present
\* and is not an object.
WrongShape(p) ==
  /\ IsObjectPayload(p)
  /\ Has(p.j, "set")
  /\ \/ ~IsDict(p.j.v["set"])
     \/ /\ Has(p.j.v["set"], "telemetry")
        /\ \/ ~IsDict(p.j.v["set"].v["telemetry"])
           \/ /\ Has(p.j.v["set"].v["telemetry"], "metrics")
              /\ ~IsDict(p.j.v["set"].v["telemetry"].v["metrics"])

\* The invocation published a CommandResult with this ok.
Reported(ok) == \E i \in Results(last.out) : last.out[i].ok = ok

\* The metric names in the applied document of a result.
AppliedMetricNames(applied) ==
  IF /\ IsDict(applied)
     /\ Has(applied, "telemetry") /\ IsDict(applied.v["telemetry"])
     /\ HasMetricsDict(applied.v["telemetry"])
    THEN DOMAIN applied.v["telemetry"].v["metrics"].v
    ELSE {}

\* C4: a cmd/cfg/set whose `set` is present and not an object (also "", 0,
\* false, []), or whose `telemetry` or `telemetry.metrics` is present and not an
\* object, is answered with ok=false and a non-null error.
C4_WrongShapeRejected ==
  (Handled({"cfg/set"}) /\ WrongShape(last.payload)) =>
    /\ Results(last.out) # {}
    /\ \A i \in Results(last.out) : last.out[i].ok = FALSE /\ last.out[i].error # JNull

\* C5: a cmd/cfg/set answered with ok=false has mutated nothing (the logging
\* flag and the telemetry configuration are as before it) and has not
\* republished cfg.
C5_FailureMutatesNothing ==
  (Handled({"cfg/set"}) /\ Reported(FALSE)) =>
    /\ last.post_logs = last.pre_logs
    /\ last.post_cfg = last.pre_cfg
    /\ CfgDocs(last.out) = {}

\* C6: the stored telemetry configuration has entries for known metric names
\* only; a cmd/cfg/set that names an unknown metric (alone, or next to known
\* metrics whose configurations are objects) is answered with ok=true and
\* leaves no entry for the unknown name.
C6_OnlyKnownMetricsStored ==
  /\ DOMAIN _telemetry_cfg \subseteq KnownMetrics
  /\ Handled({"cfg/set"}) => DOMAIN last.post_cfg \subseteq KnownMetrics
  /\ (/\ Handled({"cfg/set"})
      /\ "bogus_metric" \in DOMAIN RequestMetrics(last.payload)
      /\ \A name \in DOMAIN RequestMetrics(last.payload) \cap KnownMetrics :
           IsDict(RequestMetrics(last.payload)[name])) =>
       /\ Reported(TRUE)
       /\ ~Reported(FALSE)

\* A cmd/cfg/set naming only bogus_metric has been answered with ok=true.
C6_Witness ==
  /\ Handled({"cfg/set"})
  /\ DOMAIN RequestMetrics(last.payload) = {"bogus_metric"}
  /\ Reported(TRUE)
  /\ "bogus_metric" \notin DOMAIN _telemetry_cfg

\* C7: the applied document of a successful cmd/cfg/set is what was applied:
\* it has no entry for an unknown metric name, and for a request that names
\* one known metric it has every known metric.
C7_AppliedIsWhatWasApplied ==
  Handled({"cfg/set"}) =>
    \A i \in Results(last.out) :
      last.out[i].ok =>
        /\ AppliedMetricNames(last.out[i].applied) \subseteq KnownMetrics
        /\ Cardinality(DOMAIN RequestMetrics(last.payload) \cap KnownMetrics) = 1
             => KnownMetrics \subseteq AppliedMetricNames(last.out[i].applied)

C9_ExhaustiveAfterOk ==
  (Handled({"cfg/set"}) /\ Reported(TRUE)) => KnownMetrics \subseteq DOMAIN last.post_cfg

\* C10: a tick in which a read of the metric source raised publishes nothing:
\* no state document and no telemetry event.
C10_FailedReadSkipsTick ==
  (tick # NoTick /\ (tick.cpu_raised \/ tick.load_raised)) => tick.out = <<>>

\* C11: stop() always returns.  A caller waiting in the join of _stop comes
\* back, with the recorded thread cleared and the component stopped, also when
\* the loop thread never leaves the tick it is in.
C11_StopReturns ==
  (caller = "joining") ~> (caller = "idle" /\ _thread = 0 /\ lifecycle = "stopped")

\* stop has returned while a loop thread is still inside a tick.
C11_Witness ==
  /\ caller = "idle"
  /\ calls # <<>>
  /\ calls[Len(calls)] = "stop"
  /\ lifecycle = "stopped"
  /\ _thread = 0
  /\ \E i \in ThreadIds : threads[i] = "tick"

\* C12: a tick publishes a telemetry event for a metric only if the gate let
\* that metric's sample through, and never for a metric whose stored
\* configuration is absent or has enabled false when the tick is made,
\* whatever the sample and the elapsed time.
C12_TelemetryOnlyThroughGate ==
  tick # NoTick =>
    /\ Emitted(tick.out) \subseteq tick.gate
    /\ Emitted(tick.out) \subseteq tick.enabled

\* After cpu_percent was emitted at 100 and then disabled, a tick that sampled
\* 103 published load and no cpu_percent.
C12_Witness ==
  /\ tick # NoTick
  /\ tick.fault = "none"
  /\ "cpu_percent" \in DOMAIN _telemetry_cfg
  /\ "cpu_percent" \notin tick.enabled
  /\ _last_emitted["cpu_percent"] = 100
  /\ tick.state["cpu_percent"] = 103
  /\ Emitted(tick.out) = {"load"}

\* C13: at every moment at most one loop thread is inside a tick.
C13_AtMostOneLoopThread ==
  Cardinality({i \in ThreadIds : threads[i] = "tick"}) <= 1

\* C14: every stored metric configuration has a boolean enabled, a number
\* greater than 0 as interval_s and a number not below 0 as
\* change_threshold_percent.
C14_MetricConfigValid ==
  \A m \in DOMAIN _telemetry_cfg :
    /\ _telemetry_cfg[m].enabled.t = "bool"
    /\ _telemetry_cfg[m].interval_s.t = "num"
    /\ _telemetry_cfg[m].interval_s.v > 0
    /\ _telemetry_cfg[m].change_threshold_percent.t = "num"
    /\ _telemetry_cfg[m].change_threshold_percent.v >= 0

\* C15: a start that takes the component from stopped to running replaces the
\* telemetry configuration with the defaults; the only other step that changes
\* it is a cmd/cfg/set: not a start while running, a stop, a tick, cmd/reset or
\* cmd/ping.
C15_CfgReplacedOnlyByStart ==
  [][/\ (lifecycle = "stopped" /\ lifecycle' = "running") =>
          _telemetry_cfg' = DefaultTelemetryCfg
     /\ (_telemetry_cfg' # _telemetry_cfg) =>
          \/ lifecycle = "stopped" /\ lifecycle' = "running"
          \/ last = NoInvocation /\ last' # NoInvocation /\ last'.op = "cfg/set"]_vars

\* cmd/ping has run on a stopped component whose cpu_percent an earlier
\* cmd/cfg/set had disabled, and the configuration is as the command found it.
C15_Witness ==
  /\ Handled({"ping"})
  /\ lifecycle = "stopped"
  /\ calls # <<>>
  /\ calls[Len(calls)] = "stop"
  /\ KnownMetrics \subseteq DOMAIN last.pre_cfg
  /\ last.pre_cfg # DefaultTelemetryCfg
  /\ _telemetry_cfg = last.pre_cfg

\* C16: a tick whose state publication does not fail publishes the sample as
\* state exactly once and first, whatever the gate decides; no tick publishes
\* a telemetry event that no state publication precedes.
C16_StateOnceBeforeTelemetry ==
  tick # NoTick =>
    /\ tick.fault # "publish_state" =>
         /\ tick.out # <<>>
         /\ tick.out[1] = StatePub(tick.state)
         /\ Cardinality({j \in DOMAIN tick.out : tick.out[j].topic = "state"}) = 1
    /\ \A j \in DOMAIN tick.out :
         tick.out[j].topic = "evt/telemetry" =>
           \E k \in 1..(j - 1) : tick.out[k].topic = "state"

\* A tick in which the gate let no metric through published the state and
\* nothing else.
C16_Witness ==
  /\ tick # NoTick
  /\ tick.fault = "none"
  /\ tick.gate = {}
  /\ tick.out = <<StatePub(tick.state)>>

\* C17: every ok=true result of a cmd/cfg/set is preceded, among that
\* command's publications, by the cfg document of the logging flag and the
\* telemetry configuration the command has stored.
C17_CfgBeforeOkResult ==
  Handled({"cfg/set"}) =>
    \A i \in Results(last.out) :
      last.out[i].ok =>
        \E j \in 1..(i - 1) : last.out[j] = CfgPub(CfgDoc(last.post_logs, last.post_cfg))

\* A cmd/cfg/set that changed the telemetry configuration has published the
\* changed configuration and then its ok=true result.
C17_Witness ==
  /\ Handled({"cfg/set"})
  /\ last.post_cfg # last.pre_cfg
  /\ Len(last.out) = 2
  /\ last.out[1] = CfgPub(CfgDoc(last.post_logs, last.post_cfg))
  /\ last.out[2].topic = "evt/result"
  /\ last.out[2].ok = TRUE

\* C18: while the stop event is set a loop thread begins no tick, a thread
\* that leaves its wait ends, and a thread inside a tick goes to its wait
\* first; and a thread that is not inside a tick for ever ends, unless a start
\* clears the event.
C18_NoTickAfterSignal ==
  /\ [][\A i \in ThreadIds :
         /\ (threads[i] # "tick" /\ threads'[i] = "tick") => ~_stop_event
         /\ (threads[i] = "wait" /\ _stop_event /\ threads'[i] # "wait") => threads'[i] = "done"
         /\ (threads[i] = "tick" /\ threads'[i] # "tick") => threads'[i] = "wait"]_vars
  /\ \A i \in ThreadIds :
       []<>(threads[i] # "tick") =>
         ((Alive(i) /\ _stop_event) ~> (threads[i] = "done" \/ ~_stop_event))

\* stop has returned, the stop event is still set and every loop thread that
\* was started has ended.
C18_Witness ==
  /\ _stop_event
  /\ lifecycle = "stopped"
  /\ caller = "idle"
  /\ threads[1] = "done"
  /\ \A i \in ThreadIds : ~Alive(i)

\* The tick just made had a failure: a read or a publication raised.
FailedTick ==
  tick # NoTick /\ (tick.fault # "none" \/ tick.cpu_raised \/ tick.load_raised)

\* C19: a tick in which a read or a publication raised leaves its thread in
\* the loop, at the wait; from there the thread begins another tick unless the
\* stop event is set.
C19_FailedTickGoesOn ==
  /\ [](FailedTick => threads[tick.thread] = "wait")
  /\ \A i \in ThreadIds :
       (FailedTick /\ tick.thread = i) ~> (threads[i] = "tick" \/ _stop_event)

\* The state publication of a tick has raised; the component is running, no
\* stop is signalled and the thread is at its wait.
C19_Witness ==
  /\ tick # NoTick
  /\ tick.fault = "publish_state"
  /\ lifecycle = "running"
  /\ ~_stop_event
  /\ tick.thread = _thread
  /\ threads[_thread] = "wait"

\* C20: a cmd/cfg/set whose payload cannot be decoded returns without raising,
\* publishes exactly one result, with request_id "", ok=true and error=null,
\* and leaves the logging flag and the telemetry configuration as they were.
C20_UndecodableIsNoOp ==
  (Handled({"cfg/set"}) /\ last.payload = Undecodable) =>
    /\ ~last.raised
    /\ Cardinality(Results(last.out)) = 1
    /\ \A i \in Results(last.out) :
         /\ last.out[i].request_id = JStr("")
         /\ last.out[i].ok = TRUE
         /\ last.out[i].error = JNull
    /\ last.post_logs = last.pre_logs
    /\ last.post_cfg = last.pre_cfg

\* An undecodable cmd/cfg/set has been answered on a started component whose
\* cpu_percent had been disabled.
C20_Witness ==
  /\ Handled({"cfg/set"})
  /\ last.payload = Undecodable
  /\ Reported(TRUE)
  /\ lifecycle = "running"
  /\ KnownMetrics \subseteq DOMAIN last.pre_cfg
  /\ last.pre_cfg["cpu_percent"].enabled = JBool(FALSE)
  /\ _telemetry_cfg = last.pre_cfg

====
